---- MODULE Spec2Model ----
(***************************************************************************)
(* A model of go-synapse: the HAProxy reconciliation loop                  *)
(* (src/src/synapse/synapse_haproxy.go), the ZooKeeper discovery watcher   *)
(* (src/unnamed/part_002) and the nerve Service (src/unnamed/part_000).    *)
(*                                                                         *)
(* Strings are TLA+ strings; Go's byte-wise string order is given by the   *)
(* rank table StrRank.  A Go string built by concatenation is modelled as  *)
(* the sequence of the pieces concatenated.                                *)
(***************************************************************************)
EXTENDS Integers, Sequences, FiniteSets, TLC

VARIABLES
    Configuration,  \* h.Configuration: the three gate flags
    Backends,       \* h.Backends: the applied snapshot
    discovered,     \* what each service's Discovery.GetDiscoveredHosts() returns now
    stateFile,      \* the state file on disk
    pc,             \* position of HAProxy.Run
    stop,           \* a value is pending on the stop channel
    last,           \* history: what the iteration of Run in progress read and did
    lastDisc,       \* history: the discovery the latest tick of this run read
    load            \* history: what LoadState saw, until the first iteration ends

hvars == <<Configuration, Backends, discovered, stateFile, pc, stop, last, lastDisc,
           load>>

VARIABLES
    zkSession,      \* the ZooKeeper session of the shared connection: none, live, lost
    nSessions,      \* how many sessions the connection has acquired
    rootExists,     \* the znode w.Path exists
    znodes,         \* the data of each child znode of w.Path, 0 when it does not exist
    connEvents,     \* w.connectionEvents: the session events not yet received
    reports,        \* w.reports: the report held for each key, 0 for none
    changed,        \* a signal is pending on w.reports.changed
    wpc,            \* position of WatcherZookeeper.Watch
    watcherStop,    \* the watcherStop channel of Watch, numbered from 1
    stopClosed,     \* the current watcherStop channel is closed
    wg,             \* the counter of watcherStopWaiter
    tasks,          \* the live watchRoot and watchNode goroutines, oldest first
    stopReq,        \* the stop channel of Watch is closed
    connClosed,     \* w.connection.Close() has been called
    emitted,        \* history: the latest ServiceReport sent since a handled loss
    lossHandled     \* history: Watch has handled a session loss and no session since

zvars == <<zkSession, nSessions, rootExists, znodes, connEvents, reports, changed, wpc,
           watcherStop, stopClosed, wg, tasks, stopReq, connClosed, emitted,
           lossHandled>>

VARIABLES
    typedCheckersWithStatus,    \* s.typedCheckersWithStatus: the latest status of each checker
    currentStatus,              \* s.currentStatus: none (nil), ok (*nil) or ko (an error)
    disabled,                   \* s.disabled is not nil
    currentWeightIndex,         \* s.currentWeightIndex
    warmupGiveUp,               \* s.warmupGiveUp: the channel it holds, 0 for nil
    closedChans,                \* the give-up channels that have been closed
    closedTwice,                \* a closed give-up channel has been closed again
    warmups,                    \* position of each Warmup goroutine; goroutine i was given channel i
    typedReportersWithReported, \* s.typedReportersWithReported of the one reporter
    stopped,                    \* Service.Start has returned
    nlast                       \* history: what the latest step of the service did

nvars == <<typedCheckersWithStatus, currentStatus, disabled, currentWeightIndex,
           warmupGiveUp, closedChans, closedTwice, warmups, typedReportersWithReported,
           stopped, nlast>>

vars == <<hvars, zvars, nvars>>

----------------------------------------------------------------------------
(* Bounds and program constants *)

\* the longest list of reports the first service's discovery returns
MaxReports == 2

\* ttl := 2000 (milliseconds) in LoadState
TTL == 2000

\* the most watchRoot and watchNode goroutines alive at a time
MaxTasks == 3

\* the most sessions the ZooKeeper connection acquires
MaxSessions == 2

\* the most Warmup goroutines a nerve Service starts
MaxWarmups == 3

\* len(weights) and postFullWeightMax of the nerve Service
LenWeights == 13
PostFullWeightMax == 10

----------------------------------------------------------------------------
(* Strings *)

\* Go compares strings byte-wise; the rank of each string of the model in that order
StrRank ==
    [s \in {"10.0.0.1", "10.0.0.9", "a", "api", "b", "web", "z"} |->
        CASE s = "10.0.0.1" -> 1
          [] s = "10.0.0.9" -> 3
          [] s = "a" -> 4
          [] s = "api" -> 5
          [] s = "b" -> 6
          [] s = "web" -> 7
          [] s = "z" -> 8]

StrLess(x, y) == StrRank[x] < StrRank[y]

\* strconv.Itoa on the port numbers of the model
Itoa(n) ==
    CASE n = 80 -> "80"
      [] n = 8080 -> "8080"
      [] n = 8081 -> "8081"

----------------------------------------------------------------------------
(* Configuration of the services (h.Services, in configuration-file order) *)

Services ==
    << [Name |-> "web", HAPPort |-> 8080, HAPServerOptions |-> "check",
        HAPListen |-> <<"mode http">>,
        DefaultServers |-> << [Name |-> "b", Host |-> "10.0.0.1", Port |-> 80] >>],
       [Name |-> "api", HAPPort |-> 8081, HAPServerOptions |-> "check inter 2s",
        HAPListen |-> << >>,
        DefaultServers |-> << >>] >>

\* h.StateFile, h.Configuration.Global and h.Configuration.Defaults
StateFile == "/var/run/synapse.state"
Global == <<"daemon">>
Defaults == <<"mode http">>

Report(name, host, maintenance, options) ==
    [Name |-> name, Host |-> host, Port |-> 80, Maintenance |-> maintenance,
     Weight |-> 10, HAProxyServerOptions |-> options]

\* the reports the discovery of service 1 (web) may return, in any order
WebReports ==
    { Report("a", "10.0.0.1", FALSE, ""),
      Report("a", "10.0.0.1", TRUE, "") }

\* the lists the discovery of service 2 (api) may return
ApiDiscoveries ==
    { << Report("z", "10.0.0.9", FALSE, "") >>,
      << Report("z", "10.0.0.9", TRUE, "") >>,
      << Report("z", "10.0.0.9", FALSE, "backup") >>,
      << Report("b", "10.0.0.9", FALSE, "") >> }

SeqsUpTo(S, n) == UNION { [1..k -> S] : k \in 0..n }

Discoveries ==
    { <<w, a>> : w \in SeqsUpTo(WebReports, MaxReports), a \in ApiDiscoveries }

----------------------------------------------------------------------------
(* Sorting: sort.Sort on slices this short is an insertion sort *)

\* HAProxyBackendServerSlice.Less: by (name, host, port)
ServerLess(x, y) ==
    \/ StrLess(x.Name, y.Name)
    \/ /\ x.Name = y.Name
       /\ \/ StrLess(x.Host, y.Host)
          \/ x.Host = y.Host /\ x.Port < y.Port

\* HAProxyBackendSlice.Less: by name
BackendLess(x, y) == StrLess(x.Name, y.Name)

\* insertionSort's inner loop: x moves left while Less(x, the element before it)
RECURSIVE InsertServer(_, _)
InsertServer(s, x) ==
    IF s = << >> \/ ~ServerLess(x, s[Len(s)])
    THEN Append(s, x)
    ELSE Append(InsertServer(SubSeq(s, 1, Len(s) - 1), x), s[Len(s)])

RECURSIVE SortServersFrom(_, _)
SortServersFrom(done, rest) ==
    IF rest = << >> THEN done
    ELSE SortServersFrom(InsertServer(done, Head(rest)), Tail(rest))

\* mutant: the call sort.Sort(backend.Servers) left out
SortServers_None(s) == s

SortServers(s) == SortServersFrom(<< >>, s)

RECURSIVE InsertBackend(_, _)
InsertBackend(s, x) ==
    IF s = << >> \/ ~BackendLess(x, s[Len(s)])
    THEN Append(s, x)
    ELSE Append(InsertBackend(SubSeq(s, 1, Len(s) - 1), x), s[Len(s)])

RECURSIVE SortBackendsFrom(_, _)
SortBackendsFrom(done, rest) ==
    IF rest = << >> THEN done
    ELSE SortBackendsFrom(InsertBackend(done, Head(rest)), Tail(rest))

SortBackends(s) == SortBackendsFrom(<< >>, s)

----------------------------------------------------------------------------
(* The Assembler *)

DefaultServer(server) ==
    [Name |-> server.Name, Host |-> server.Host, Port |-> server.Port,
     Disabled |-> FALSE, Weight |-> 0, HAProxyServerOptions |-> ""]

DiscoveredServer(server) ==
    [Name |-> server.Name, Host |-> server.Host, Port |-> server.Port,
     Disabled |-> server.Maintenance, Weight |-> server.Weight,
     HAProxyServerOptions |-> server.HAProxyServerOptions]

\* the servers of one service: defaults, then discovered, appended in that order
MergedServers(service, discoveredHosts) ==
    [j \in 1..Len(service.DefaultServers) |-> DefaultServer(service.DefaultServers[j])]
    \o [j \in 1..Len(discoveredHosts) |-> DiscoveredServer(discoveredHosts[j])]

BackendOf(service, discoveredHosts) ==
    [Name |-> service.Name, Port |-> service.HAPPort,
     ServerOptions |-> service.HAPServerOptions, Listen |-> service.HAPListen,
     Servers |-> SortServers(MergedServers(service, discoveredHosts))]

getAllBackends(disc) ==
    SortBackends([i \in 1..Len(Services) |-> BackendOf(Services[i], disc[i])])

----------------------------------------------------------------------------
(* The Differ *)

SameServer(x, y) == x.Name = y.Name /\ x.Host = y.Host /\ x.Port = y.Port

\* "disable server " + backend.Name + "/" + server.Name
DisableCommand(backend, server) == <<"disable server ", backend.Name, "/", server.Name>>
EnableCommand(backend, server) == <<"enable server ", backend.Name, "/", server.Name>>

\* mutant: enable and disable exchanged
RECURSIVE ServerCommands_Swapped(_, _, _)
ServerCommands_Swapped(backend, old, i) ==
    IF i > Len(backend.Servers) THEN << >>
    ELSE LET server == backend.Servers[i]
             here == IF SameServer(server, old.Servers[i])
                        /\ server.Disabled # old.Servers[i].Disabled
                     THEN IF server.Disabled
                          THEN << EnableCommand(backend, server) >>
                          ELSE << DisableCommand(backend, server) >>
                     ELSE << >>
         IN  here \o ServerCommands_Swapped(backend, old, i + 1)

\* the inner loop over backend.Servers from index i, when the server counts agree:
\* the commands appended for this backend
RECURSIVE ServerCommands(_, _, _)
ServerCommands(backend, old, i) ==
    IF i > Len(backend.Servers) THEN << >>
    ELSE LET server == backend.Servers[i]
             here == IF SameServer(server, old.Servers[i])
                        /\ server.Disabled # old.Servers[i].Disabled
                     THEN IF server.Disabled
                          THEN << DisableCommand(backend, server) >>
                          ELSE << EnableCommand(backend, server) >>
                     ELSE << >>
         IN  here \o ServerCommands(backend, old, i + 1)

\* the outer loop from backend index, when the backend counts agree
RECURSIVE BackendCommands(_, _, _)
BackendCommands(newBackends, cur, index) ==
    IF index > Len(newBackends) THEN << >>
    ELSE (IF Len(newBackends[index].Servers) # Len(cur[index].Servers)
          THEN << >>
          ELSE ServerCommands(newBackends[index], cur[index], 1))
         \o BackendCommands(newBackends, cur, index + 1)

\* mutant: only the server counts are compared
RestartNeeded_CountsOnly(newBackends, cur) ==
    \E index \in 1..Len(newBackends) :
        Len(newBackends[index].Servers) # Len(cur[index].Servers)

\* some backend has another server count, or a server another name, host or port
RestartNeeded(newBackends, cur) ==
    \E index \in 1..Len(newBackends) :
        \/ Len(newBackends[index].Servers) # Len(cur[index].Servers)
        \/ \E i \in 1..Len(newBackends[index].Servers) :
              ~SameServer(newBackends[index].Servers[i], cur[index].Servers[i])

\* mutant: the candidate is not compared with the services
isBackendsModified_NoServiceCount(newBackends, cur) ==
    IF Len(newBackends) = Len(cur)
    THEN LET commands == BackendCommands(newBackends, cur, 1)
             restart == RestartNeeded(newBackends, cur)
         IN  [err |-> FALSE, isModified |-> restart \/ commands # << >>,
              hasToRestart |-> restart, socketCommands |-> commands]
    ELSE [err |-> FALSE, isModified |-> TRUE, hasToRestart |-> TRUE,
          socketCommands |-> << >>]

isBackendsModified(newBackends, cur) ==
    IF Len(newBackends) # Len(Services)
    THEN [err |-> TRUE, isModified |-> FALSE, hasToRestart |-> FALSE,
          socketCommands |-> << >>]
    ELSE IF Len(newBackends) = Len(cur)
    THEN LET commands == BackendCommands(newBackends, cur, 1)
             restart == RestartNeeded(newBackends, cur)
         IN  [err |-> FALSE, isModified |-> restart \/ commands # << >>,
              hasToRestart |-> restart, socketCommands |-> commands]
    ELSE [err |-> FALSE, isModified |-> TRUE, hasToRestart |-> TRUE,
          socketCommands |-> << >>]

----------------------------------------------------------------------------
(* The configuration file: the pieces SaveConfiguration appends to data *)

RECURSIVE ConfigLines(_)
ConfigLines(lines) ==
    IF lines = << >> THEN << >>
    ELSE <<"  ", Head(lines), "\n">> \o ConfigLines(Tail(lines))

ServerLine(backend, server) ==
    <<"  server ", server.Name, " ", server.Host, ":", Itoa(server.Port), " ",
      backend.ServerOptions>>
    \o (IF server.HAProxyServerOptions # "" THEN <<" ", server.HAProxyServerOptions>>
        ELSE << >>)
    \o (IF server.Disabled THEN <<" disabled">> ELSE << >>)
    \o <<"\n">>

RECURSIVE ServerLines(_, _)
ServerLines(backend, i) ==
    IF i > Len(backend.Servers) THEN << >>
    ELSE ServerLine(backend, backend.Servers[i]) \o ServerLines(backend, i + 1)

BackendSection(backend) ==
    <<"backend ", backend.Name, "\n", "  bind ", Itoa(backend.Port), "\n">>
    \o ConfigLines(backend.Listen)
    \o ServerLines(backend, 1)
    \o <<"\n">>

RECURSIVE BackendSections(_)
BackendSections(backends) ==
    IF backends = << >> THEN << >>
    ELSE BackendSection(Head(backends)) \o BackendSections(Tail(backends))

ConfigData(backends) ==
    <<"#\n", "# HAProxy Configuration File Generated by GO-Synapse\n",
      "# If you modify it, be aware that you modifications will be overriden soon\n",
      "#\n\n", "global\n">>
    \o ConfigLines(Global)
    \o <<"\ndefaults\n">>
    \o ConfigLines(Defaults)
    \o <<"\n">>
    \o BackendSections(backends)

----------------------------------------------------------------------------
(* The state file: json.Marshal and json.Unmarshal of the snapshot.  An     *)
(* object is encoded as the sequence of its fields' values in struct order. *)

MarshalServer(s) ==
    <<s.Name, s.Host, s.Port, s.Disabled, s.Weight, s.HAProxyServerOptions>>

MarshalBackend(b) ==
    <<b.Name, b.Port, b.ServerOptions, b.Listen,
      [i \in 1..Len(b.Servers) |-> MarshalServer(b.Servers[i])]>>

Marshal(backends) == [i \in 1..Len(backends) |-> MarshalBackend(backends[i])]

UnmarshalServer(d) ==
    [Name |-> d[1], Host |-> d[2], Port |-> d[3], Disabled |-> d[4],
     Weight |-> d[5], HAProxyServerOptions |-> d[6]]

UnmarshalBackend(d) ==
    [Name |-> d[1], Port |-> d[2], ServerOptions |-> d[3], Listen |-> d[4],
     Servers |-> [i \in 1..Len(d[5]) |-> UnmarshalServer(d[5][i])]]

Unmarshal(data) == [i \in 1..Len(data) |-> UnmarshalBackend(data[i])]

\* the state file: its JSON data and, as history, the discovery it was saved from
NoFile == [exists |-> FALSE, data |-> << >>, from |-> << << >>, << >> >>]

----------------------------------------------------------------------------
(* The Effector.  Each operation returns its error and the I/O it performed, *)
(* as a list of events [op, ok, data].                                       *)

Ev(op, ok, data) == [op |-> op, ok |-> ok, data |-> data]

\* the ages (ms) of the state file at startup, around the TTL
Ages == {TTL, TTL + 1}

\* what the admin socket does with one command: the write fails, the read fails,
\* or a response is read
OkOutcome == [writeOk |-> TRUE, readOk |-> TRUE, resp |-> "\n"]
FailOutcomes ==
    { [writeOk |-> FALSE, readOk |-> TRUE, resp |-> ""],
      [writeOk |-> TRUE, readOk |-> FALSE, resp |-> ""],
      [writeOk |-> TRUE, readOk |-> TRUE, resp |-> "Unknown command\n"] }

\* the event of ioutil.WriteFile carries the data handed to it
SaveConfiguration(backends, wOk) ==
    IF Configuration.DoWrites
    THEN [err |-> ~wOk, io |-> << Ev("writeConfig", wOk, ConfigData(backends)) >>]
    ELSE [err |-> FALSE, io |-> << >>]

\* mutant: the do_reloads gate left out
reloadHAProxyDaemon_NoGate(rOk) ==
    [err |-> ~rOk, io |-> << Ev("reload", rOk, << >>) >>]

reloadHAProxyDaemon(rOk) ==
    IF Configuration.DoReloads
    THEN [err |-> ~rOk, io |-> << Ev("reload", rOk, << >>) >>]
    ELSE [err |-> FALSE, io |-> << >>]

\* the loop over commands from index i; command failAt gets the outcome fail.
\* On a response other than "\n" the code returns the err of conn.Read, which
\* the := of line 247 declares in the loop body and which is nil at that point.
RECURSIVE SocketLoop(_, _, _, _)
SocketLoop(commands, i, failAt, fail) ==
    IF i > Len(commands) THEN [err |-> FALSE, io |-> << Ev("sockClose", TRUE, << >>) >>]
    ELSE LET o == IF i = failAt THEN fail ELSE OkOutcome
             write == Ev("sockWrite", o.writeOk, commands[i])
             read == Ev("sockRead", o.readOk, IF o.readOk THEN <<o.resp>> ELSE << >>)
             close == Ev("sockClose", TRUE, << >>)
         IN  IF ~o.writeOk THEN [err |-> TRUE, io |-> <<write, close>>]
             ELSE IF ~o.readOk THEN [err |-> TRUE, io |-> <<write, read, close>>]
             ELSE IF o.resp # "\n"
             THEN [err |-> ~o.readOk, io |-> <<write, read, close>>]
             ELSE LET rest == SocketLoop(commands, i + 1, failAt, fail)
                  IN  [err |-> rest.err, io |-> <<write, read>> \o rest.io]

changeBackendsStateBySocket(commands, dialOk, failAt, fail) ==
    IF Configuration.DoSocket
    THEN IF ~dialOk THEN [err |-> TRUE, io |-> << Ev("dial", FALSE, << >>) >>]
         ELSE LET pass == SocketLoop(commands, 1, failAt, fail)
              IN  [err |-> pass.err, io |-> << Ev("dial", TRUE, << >>) >> \o pass.io]
    ELSE [err |-> FALSE, io |-> << >>]

\* SaveState: json.Marshal, then ioutil.WriteFile, which is taken to succeed
SaveState(backends) ==
    [err |-> FALSE, io |-> << Ev("saveState", TRUE, << >>) >>,
     file |-> [exists |-> TRUE, data |-> Marshal(backends), from |-> discovered]]

\* mutant: the reload after the socket pass is not conditional on its error
ApplyChange_AlwaysReload(d, o) ==
    IF d.hasToRestart THEN reloadHAProxyDaemon(o.rOk).io
    ELSE IF Configuration.DoReloads /\ ~Configuration.DoSocket
    THEN reloadHAProxyDaemon(o.rOk).io
    ELSE changeBackendsStateBySocket(d.socketCommands, o.dialOk, o.failAt, o.fail).io
         \o reloadHAProxyDaemon(o.rOk).io

\* mutant: the fallback reload runs before the socket pass
ApplyChange_ReloadFirst(d, o) ==
    IF d.hasToRestart THEN reloadHAProxyDaemon(o.rOk).io
    ELSE IF Configuration.DoReloads /\ ~Configuration.DoSocket
    THEN reloadHAProxyDaemon(o.rOk).io
    ELSE LET s == changeBackendsStateBySocket(d.socketCommands, o.dialOk, o.failAt,
                                              o.fail)
         IN  IF s.err THEN reloadHAProxyDaemon(o.rOk).io \o s.io ELSE s.io

\* mutant: the branch for do_reloads without do_socket left out
ApplyChange_NoSocketGate(d, o) ==
    IF d.hasToRestart THEN reloadHAProxyDaemon(o.rOk).io
    ELSE LET s == changeBackendsStateBySocket(d.socketCommands, o.dialOk, o.failAt,
                                              o.fail)
         IN  IF s.err THEN s.io \o reloadHAProxyDaemon(o.rOk).io ELSE s.io

\* the body of Run's else branch after SaveConfiguration succeeded (lines 297-312);
\* o says how the reload command and the admin socket behave in this tick
ApplyChange(d, o) ==
    IF d.hasToRestart THEN reloadHAProxyDaemon(o.rOk).io
    ELSE IF Configuration.DoReloads /\ ~Configuration.DoSocket
    THEN reloadHAProxyDaemon(o.rOk).io
    ELSE LET s == changeBackendsStateBySocket(d.socketCommands, o.dialOk, o.failAt,
                                              o.fail)
         IN  IF s.err THEN s.io \o reloadHAProxyDaemon(o.rOk).io ELSE s.io

\* the most commands one tick can send: one per discovered server
MaxCommands == MaxReports + 1

\* how the outside world answers one tick: the config write fails; or it succeeds
\* and the reload command succeeds or not, and the socket cannot be dialed, or
\* answers every command with "\n" (failAt 0), or treats command failAt as fail says
AllGood == [wOk |-> TRUE, rOk |-> TRUE, dialOk |-> TRUE, failAt |-> 0, fail |-> OkOutcome]

TickOutcomes ==
    { [AllGood EXCEPT !.wOk = FALSE] }
    \cup { [AllGood EXCEPT !.rOk = r, !.dialOk = FALSE] : r \in BOOLEAN }
    \cup { [AllGood EXCEPT !.rOk = r] : r \in BOOLEAN }
    \cup { [AllGood EXCEPT !.rOk = r, !.failAt = k, !.fail = f] :
             r \in BOOLEAN, k \in 1..MaxCommands, f \in FailOutcomes }

\* the outcomes that differ in the I/O the tick with diff d performs
OutcomesOf(d) ==
    IF d.err \/ ~d.isModified THEN { AllGood }
    ELSE IF d.hasToRestart \/ ~Configuration.DoSocket
    THEN { o \in TickOutcomes : o.dialOk /\ o.failAt = 0 }
    ELSE { o \in TickOutcomes : o.failAt <= Len(d.socketCommands) }

----------------------------------------------------------------------------
(* The ZooKeeper watcher: its state *)

\* the child znodes of w.Path that come and go
Children == {"c1", "c2"}

\* the only child of the runs with session losses and shutdown
OnlyChild == {"c1"}

\* w.Path + "/" + child
NodePath(child) == CASE child = "c1" -> "/web/c1" [] child = "c2" -> "/web/c2"

\* the keys the report map is asked about: child names and node paths
Keys == Children \cup { NodePath(c) : c \in Children }

NoReports == [k \in Keys |-> 0]

NoEmit == [afterLoss |-> FALSE, reports |-> NoReports]

ZInit ==
    /\ zkSession = "none"
    /\ nSessions = 0
    /\ rootExists = TRUE
    /\ znodes = [c \in Children |-> 0]
    /\ connEvents = << >>
    /\ reports = NoReports
    /\ changed = FALSE
    /\ wpc = "select"
    /\ watcherStop = 1
    /\ stopClosed = FALSE
    /\ wg = 0
    /\ tasks = << >>
    /\ stopReq = FALSE
    /\ connClosed = FALSE
    /\ emitted = NoEmit
    /\ lossHandled = FALSE

----------------------------------------------------------------------------
(* HAProxy.Run *)

\* the nerve Service after Init, with two checks and one reporter
Checkers == {"k1", "k2"}

NoStep == [op |-> "none", before |-> "none", combined |-> "none", io |-> << >>]

NInit ==
    /\ typedCheckersWithStatus = [k \in Checkers |-> "none"]
    /\ currentStatus = "none"
    /\ disabled = FALSE
    /\ currentWeightIndex = 0
    /\ warmupGiveUp = 0
    /\ closedChans = {}
    /\ closedTwice = FALSE
    /\ warmups = [i \in 1..MaxWarmups |-> "idle"]
    /\ typedReportersWithReported = TRUE
    /\ stopped = FALSE
    /\ nlast = NoStep

NoTick ==
    [first |-> FALSE, before |-> << >>, candidate |-> << >>, err |-> FALSE,
     isModified |-> FALSE, hasToRestart |-> FALSE, socketCommands |-> << >>,
     io |-> << >>, sameDisc |-> FALSE]

NoDisc == [valid |-> FALSE, disc |-> << << >>, << >> >>]

NoLoad ==
    [age |-> 0, existed |-> FALSE, readOk |-> FALSE, adopted |-> FALSE,
     from |-> << << >>, << >> >>]

Init ==
    /\ Configuration \in [DoWrites : BOOLEAN, DoReloads : BOOLEAN, DoSocket : BOOLEAN]
    /\ Backends = << >>
    /\ discovered \in Discoveries
    /\ stateFile = NoFile
    /\ pc = "start"
    /\ stop = FALSE
    /\ last = NoTick
    /\ lastDisc = NoDisc
    /\ load = NoLoad
    /\ ZInit
    /\ NInit

\* mutant: the expiry test left out
LoadState_NoExpiry(age, readOk) ==
    /\ pc = "start"
    /\ pc' = "loop"
    /\ LET adopt == stateFile.exists /\ readOk
       IN  /\ Backends' = IF adopt THEN Unmarshal(stateFile.data) ELSE Backends
           /\ load' = [age |-> age, existed |-> stateFile.exists, readOk |-> readOk,
                       adopted |-> adopt, from |-> stateFile.from]
    /\ UNCHANGED <<Configuration, discovered, stateFile, stop, last, lastDisc>>
    /\ UNCHANGED <<zvars, nvars>>

\* Run's first step: LoadState, with the state file age ms old and readable or not
LoadState(age, readOk) ==
    /\ pc = "start"
    /\ pc' = "loop"
    /\ LET adopt == stateFile.exists /\ ~(age > TTL) /\ readOk
       IN  /\ Backends' = IF adopt THEN Unmarshal(stateFile.data) ELSE Backends
           /\ load' = [age |-> age, existed |-> stateFile.exists, readOk |-> readOk,
                       adopted |-> adopt, from |-> stateFile.from]
    /\ UNCHANGED <<Configuration, discovered, stateFile, stop, last, lastDisc>>
    /\ UNCHANGED <<zvars, nvars>>

\* mutant: the candidate is never adopted
Adopt_Never(act, backends) == Backends

\* h.Backends = backends, in the isModified branch
Adopt(act, backends) == IF act THEN backends ELSE Backends

\* one iteration of the loop of Run from line 280 up to the select, with the
\* candidate backends
Iteration(backends, o) ==
    /\ pc = "loop"
    /\ pc' = "select"
    /\ o \in OutcomesOf(isBackendsModified(backends, Backends))
    /\ LET d == isBackendsModified(backends, Backends)
           act == ~d.err /\ d.isModified
           st == IF StateFile # "" THEN SaveState(backends)
                 ELSE [err |-> FALSE, io |-> << >>, file |-> stateFile]
           sc == SaveConfiguration(backends, o.wOk)
           io == IF ~act THEN << >>
                 ELSE st.io \o sc.io \o (IF sc.err THEN << >> ELSE ApplyChange(d, o))
       IN  /\ Backends' = Adopt(act, backends)
           /\ stateFile' = IF act THEN st.file ELSE stateFile
           /\ last' = [first |-> ~lastDisc.valid,
                       before |-> Backends, candidate |-> backends, err |-> d.err,
                       isModified |-> d.isModified, hasToRestart |-> d.hasToRestart,
                       socketCommands |-> d.socketCommands, io |-> io,
                       sameDisc |-> lastDisc.valid /\ lastDisc.disc = discovered]
           /\ lastDisc' = [valid |-> TRUE, disc |-> discovered]
    /\ UNCHANGED <<Configuration, discovered, stop, load>>
    /\ UNCHANGED <<zvars, nvars>>

\* one iteration of the loop of Run, up to the select
Tick(o) == Iteration(getAllBackends(discovered), o)

\* select: a value is pending on stop, Run breaks out of the loop
SelectStop ==
    /\ pc = "select" /\ stop
    /\ pc' = "done" /\ stop' = FALSE
    /\ last' = NoTick
    /\ load' = NoLoad
    /\ UNCHANGED <<Configuration, Backends, discovered, stateFile, lastDisc>>
    /\ UNCHANGED <<zvars, nvars>>

\* select: nothing is pending on stop, the default branch sleeps WriteInterval ms
\* and the loop goes on to its next iteration
SelectDefault ==
    /\ pc = "select" /\ ~stop
    /\ pc' = "loop"
    /\ last' = NoTick
    /\ load' = NoLoad
    /\ UNCHANGED <<Configuration, Backends, discovered, stateFile, stop, lastDisc>>
    /\ UNCHANGED <<zvars, nvars>>

\* the caller sends on the stop channel, while Run sleeps or before the iteration
\* starts (Run reads the channel in its select only)
StopSignal ==
    /\ pc = "loop" /\ ~stop
    /\ stop' = TRUE
    /\ UNCHANGED <<Configuration, Backends, discovered, stateFile, pc,
                   last, lastDisc, load>>
    /\ UNCHANGED <<zvars, nvars>>

\* a discovery source changes what it returns while Run sleeps (Run reads the
\* sources in getAllBackends only, so a change at any other time is seen as one
\* made during the sleep before the next iteration)
DiscoveryChange(d) ==
    /\ pc = "loop" /\ lastDisc.valid /\ ~stop
    /\ d # discovered
    /\ discovered' = d
    /\ UNCHANGED <<Configuration, Backends, stateFile, pc, stop, last,
                   lastDisc, load>>
    /\ UNCHANGED <<zvars, nvars>>

\* the process has ended and is started again: a new HAProxy value, the files stay
Restart ==
    /\ pc = "done"
    /\ pc' = "start"
    /\ Backends' = << >>
    /\ last' = NoTick
    /\ lastDisc' = NoDisc
    /\ load' = NoLoad
    /\ UNCHANGED <<Configuration, discovered, stateFile, stop>>
    /\ UNCHANGED <<zvars, nvars>>

Next ==
    \/ \E age \in Ages, readOk \in BOOLEAN : LoadState(age, readOk)
    \/ \E o \in TickOutcomes : Tick(o)
    \/ SelectStop
    \/ SelectDefault
    \/ StopSignal
    \/ \E d \in Discoveries : DiscoveryChange(d)
    \/ Restart

Spec == Init /\ [][Next]_vars

\* The loop of Run with a candidate that need not have one backend per service:
\* the first k backends of what getAllBackends returns.  No shutdown is
\* requested, and after the start only the discovery of the first service
\* changes.
InitShort ==
    /\ Init
    /\ Configuration = [DoWrites |-> TRUE, DoReloads |-> TRUE, DoSocket |-> TRUE]

TickShort(k, o) == Iteration(SubSeq(getAllBackends(discovered), 1, k), o)

NextShort ==
    \/ \E age \in Ages, readOk \in BOOLEAN : LoadState(age, readOk)
    \/ \E k \in 0..Len(Services) : \E o \in TickOutcomes : TickShort(k, o)
    \/ SelectDefault
    \/ \E d \in Discoveries : d[2] = discovered[2] /\ DiscoveryChange(d)

SpecShort == InitShort /\ [][NextShort]_vars

----------------------------------------------------------------------------
(* The report map w.reports.  A report is the content of the znode it was   *)
(* read from; the map signals every change on its channel changed.          *)

\* reportMap.setNoNodes: the map holds no report
setNoNodes(m) == NoReports

\* reportMap.removeAll
removeAll(m) == NoReports

\* reportMap.addRawReport(node, content, fields)
addRawReport(m, node, content) == [m EXCEPT ![node] = content]

\* reportMap.removeNode(node)
removeNode(m, node) == [m EXCEPT ![node] = 0]

\* reportMap.get(key): the second result, whether a report is held for key
get(m, key) == m[key] # 0

\* reportMap.getValues(): the reports held
getValues(m) == m

----------------------------------------------------------------------------
(* The goroutines of the watcher *)

ChildOrder == <<"c1", "c2">>

\* go f(...) for each of new
Spawn(ts, new) == ts \o new

\* the goroutine t has returned
Return(ts, t) == SubSeq(ts, 1, t - 1) \o SubSeq(ts, t + 1, Len(ts))

NewTask(kind, node, ch) ==
    [kind |-> kind, node |-> node, pc |-> "spawned", ch |-> ch, watch |-> "nil"]

\* the stop channel a goroutine was given is closed
StopClosedFor(t) == tasks[t].ch < watcherStop \/ stopClosed

\* a ZooKeeper call can be answered
Connected == zkSession = "live" /\ ~connClosed

\* the armed watches of the goroutines of this kind at these positions, on
\* this node ("" for any), deliver the event ev
Fire(ts, kind, pcs, node, ev) ==
    [t \in DOMAIN ts |->
        IF /\ ts[t].kind = kind /\ ts[t].pc \in pcs /\ ts[t].watch = "armed"
           /\ (node = "" \/ ts[t].node = node)
        THEN [ts[t] EXCEPT !.watch = ev]
        ELSE ts[t]]

\* every armed watch delivers EventNotWatching
Invalidate(ts) ==
    [t \in DOMAIN ts |->
        IF ts[t].watch = "armed" THEN [ts[t] EXCEPT !.watch = "fired"] ELSE ts[t]]

----------------------------------------------------------------------------
(* WatcherZookeeper.Watch *)

\* case <-w.reports.changed
WatchChanged ==
    /\ wpc = "select" /\ changed
    /\ changed' = FALSE
    /\ emitted' = IF lossHandled
                  THEN [afterLoss |-> TRUE, reports |-> getValues(reports)]
                  ELSE NoEmit
    /\ UNCHANGED <<zkSession, nSessions, rootExists, znodes, connEvents, reports, wpc,
                   watcherStop, stopClosed, wg, tasks, stopReq, connClosed, lossHandled>>
    /\ UNCHANGED <<hvars, nvars>>

\* case e := <-w.connectionEvents, e.State == zk.StateHasSession
WatchHasSession ==
    /\ wpc = "select" /\ connEvents # << >> /\ Head(connEvents) = "HasSession"
    /\ Len(tasks) < MaxTasks
    /\ connEvents' = Tail(connEvents)
    /\ tasks' = Spawn(tasks, <<NewTask("root", "", watcherStop)>>)
    /\ lossHandled' = FALSE
    /\ emitted' = NoEmit
    /\ UNCHANGED <<zkSession, nSessions, rootExists, znodes, reports, changed, wpc,
                   watcherStop, stopClosed, wg, stopReq, connClosed>>
    /\ UNCHANGED <<hvars, nvars>>

\* case e := <-w.connectionEvents, e.State Expired or Disconnected:
\* close(watcherStop), then watcherStopWaiter.Wait()
WatchSessionLoss ==
    /\ wpc = "select" /\ connEvents # << >>
    /\ Head(connEvents) \in {"Expired", "Disconnected"}
    /\ connEvents' = Tail(connEvents)
    /\ stopClosed' = TRUE
    /\ wpc' = "waitLoss"
    /\ UNCHANGED <<zkSession, nSessions, rootExists, znodes, reports, changed,
                   watcherStop, wg, tasks, stopReq, connClosed, emitted, lossHandled>>
    /\ UNCHANGED <<hvars, nvars>>

\* Wait() returns; watcherStop and watcherStopWaiter are made anew
WatchLossDrained ==
    /\ wpc = "waitLoss" /\ wg = 0
    /\ watcherStop' = watcherStop + 1
    /\ stopClosed' = FALSE
    /\ wg' = 0
    /\ wpc' = "select"
    /\ lossHandled' = TRUE
    /\ UNCHANGED <<zkSession, nSessions, rootExists, znodes, connEvents, reports, changed,
                   tasks, stopReq, connClosed, emitted>>
    /\ UNCHANGED <<hvars, nvars>>

\* case <-stop: close(watcherStop), then watcherStopWaiter.Wait()
WatchStop ==
    /\ wpc = "select" /\ stopReq
    /\ stopClosed' = TRUE
    /\ wpc' = "waitStop"
    /\ UNCHANGED <<zkSession, nSessions, rootExists, znodes, connEvents, reports, changed,
                   watcherStop, wg, tasks, stopReq, connClosed, emitted, lossHandled>>
    /\ UNCHANGED <<hvars, nvars>>

\* Wait() returns; w.connection.Close(); return
WatchClose ==
    /\ wpc = "waitStop" /\ wg = 0
    /\ connClosed' = TRUE
    /\ wpc' = "done"
    /\ UNCHANGED <<zkSession, nSessions, rootExists, znodes, connEvents, reports, changed,
                   watcherStop, stopClosed, wg, tasks, stopReq, emitted, lossHandled>>
    /\ UNCHANGED <<hvars, nvars>>

----------------------------------------------------------------------------
(* WatcherZookeeper.watchRoot and WatcherZookeeper.watchNode *)

\* doneWaiter.Add(1), the first statement of both goroutines
TaskAdd(t) ==
    /\ t \in DOMAIN tasks /\ tasks[t].pc = "spawned"
    /\ wg' = wg + 1
    /\ tasks' = [tasks EXCEPT ![t].pc = IF tasks[t].kind = "root" THEN "exists" ELSE "get"]
    /\ UNCHANGED <<zkSession, nSessions, rootExists, znodes, connEvents, reports, changed,
                   wpc, watcherStop, stopClosed, stopReq, connClosed, emitted,
                   lossHandled>>
    /\ UNCHANGED <<hvars, nvars>>

\* case <-stop: return, and the deferred doneWaiter.Done()
TaskStopped(t) ==
    /\ t \in DOMAIN tasks /\ tasks[t].pc \in {"waitExist", "waitRoot", "wait"}
    /\ StopClosedFor(t)
    /\ wg' = wg - 1
    /\ tasks' = Return(tasks, t)
    /\ UNCHANGED <<zkSession, nSessions, rootExists, znodes, connEvents, reports, changed,
                   wpc, watcherStop, stopClosed, stopReq, connClosed, emitted,
                   lossHandled>>
    /\ UNCHANGED <<hvars, nvars>>

\* ExistsW(w.Path) as it would be without the setNoNodes() of the missing path
RootExists_NoClear(t) ==
    /\ t \in DOMAIN tasks /\ tasks[t].kind = "root" /\ tasks[t].pc = "exists"
    /\ IF Connected /\ rootExists
       THEN tasks' = [tasks EXCEPT ![t].pc = "children"]
       ELSE tasks' = [tasks EXCEPT ![t].pc = "waitExist",
                                   ![t].watch = IF Connected THEN "armed" ELSE "nil"]
    /\ UNCHANGED <<zkSession, nSessions, rootExists, znodes, connEvents, reports, changed,
                   wpc, watcherStop, stopClosed, wg, stopReq, connClosed, emitted,
                   lossHandled>>
    /\ UNCHANGED <<hvars, nvars>>

\* ExistsW(w.Path); when the path does not exist, setNoNodes()
RootExists(t) ==
    /\ t \in DOMAIN tasks /\ tasks[t].kind = "root" /\ tasks[t].pc = "exists"
    /\ IF Connected /\ rootExists
       THEN /\ tasks' = [tasks EXCEPT ![t].pc = "children"]
            /\ UNCHANGED <<reports, changed>>
       ELSE /\ reports' = setNoNodes(reports)
            /\ changed' = TRUE
            /\ tasks' = [tasks EXCEPT ![t].pc = "waitExist",
                                      ![t].watch = IF Connected THEN "armed" ELSE "nil"]
    /\ UNCHANGED <<zkSession, nSessions, rootExists, znodes, connEvents, wpc, watcherStop,
                   stopClosed, wg, stopReq, connClosed, emitted, lossHandled>>
    /\ UNCHANGED <<hvars, nvars>>

\* case <-existEvent
RootCreated(t) ==
    /\ t \in DOMAIN tasks /\ tasks[t].kind = "root" /\ tasks[t].pc = "waitExist"
    /\ tasks[t].watch = "fired"
    /\ tasks' = [tasks EXCEPT ![t].pc = "children", ![t].watch = "nil"]
    /\ UNCHANGED <<zkSession, nSessions, rootExists, znodes, connEvents, reports, changed,
                   wpc, watcherStop, stopClosed, wg, stopReq, connClosed, emitted,
                   lossHandled>>
    /\ UNCHANGED <<hvars, nvars>>

\* the children ChildrenW returns
Childs == IF Connected /\ rootExists THEN { c \in Children : znodes[c] # 0 } ELSE {}

\* the children watchRoot starts a goroutine for
Unreported(childs, m) == SelectSeq(ChildOrder, LAMBDA c : c \in childs /\ ~get(m, c))

NewNodeTasks(cs, ch) == [i \in DOMAIN cs |-> NewTask("node", NodePath(cs[i]), ch)]

\* ChildrenW(w.Path); setNoNodes() or a watchNode per child without a report
RootChildren(t) ==
    /\ t \in DOMAIN tasks /\ tasks[t].kind = "root" /\ tasks[t].pc = "children"
    /\ LET new == NewNodeTasks(Unreported(Childs, reports), tasks[t].ch)
           waiting == [tasks EXCEPT ![t].pc = "waitRoot",
                                    ![t].watch = IF Connected /\ rootExists
                                                 THEN "armed" ELSE "nil"]
       IN  /\ Len(tasks) + Len(new) <= MaxTasks
           /\ tasks' = Spawn(waiting, new)
           /\ IF Childs = {}
              THEN reports' = setNoNodes(reports) /\ changed' = TRUE
              ELSE UNCHANGED <<reports, changed>>
    /\ UNCHANGED <<zkSession, nSessions, rootExists, znodes, connEvents, wpc, watcherStop,
                   stopClosed, wg, stopReq, connClosed, emitted, lossHandled>>
    /\ UNCHANGED <<hvars, nvars>>

\* case e := <-rootEvents: removeAll() on EventNodeDeleted, then loop
RootEvent(t) ==
    /\ t \in DOMAIN tasks /\ tasks[t].kind = "root" /\ tasks[t].pc = "waitRoot"
    /\ tasks[t].watch \in {"fired", "deleted"}
    /\ IF tasks[t].watch = "deleted"
       THEN reports' = removeAll(reports) /\ changed' = TRUE
       ELSE UNCHANGED <<reports, changed>>
    /\ tasks' = [tasks EXCEPT ![t].pc = "exists", ![t].watch = "nil"]
    /\ UNCHANGED <<zkSession, nSessions, rootExists, znodes, connEvents, wpc, watcherStop,
                   stopClosed, wg, stopReq, connClosed, emitted, lossHandled>>
    /\ UNCHANGED <<hvars, nvars>>

\* the child a node path names
ChildOf(node) == CHOOSE c \in Children : NodePath(c) = node

\* GetW(node): addRawReport, or return on an error
NodeGet(t) ==
    /\ t \in DOMAIN tasks /\ tasks[t].kind = "node" /\ tasks[t].pc = "get"
    /\ IF Connected /\ rootExists /\ znodes[ChildOf(tasks[t].node)] # 0
       THEN /\ reports' = addRawReport(reports, tasks[t].node,
                                       znodes[ChildOf(tasks[t].node)])
            /\ changed' = TRUE
            /\ tasks' = [tasks EXCEPT ![t].pc = "wait", ![t].watch = "armed"]
            /\ UNCHANGED wg
       ELSE /\ tasks' = Return(tasks, t)
            /\ wg' = wg - 1
            /\ UNCHANGED <<reports, changed>>
    /\ UNCHANGED <<zkSession, nSessions, rootExists, znodes, connEvents, wpc, watcherStop,
                   stopClosed, stopReq, connClosed, emitted, lossHandled>>
    /\ UNCHANGED <<hvars, nvars>>

\* case e := <-childEvent: removeNode and return on EventNodeDeleted, else loop
NodeEvent(t) ==
    /\ t \in DOMAIN tasks /\ tasks[t].kind = "node" /\ tasks[t].pc = "wait"
    /\ tasks[t].watch \in {"fired", "deleted"}
    /\ IF tasks[t].watch = "deleted"
       THEN /\ reports' = removeNode(reports, tasks[t].node)
            /\ changed' = TRUE
            /\ tasks' = Return(tasks, t)
            /\ wg' = wg - 1
       ELSE /\ tasks' = [tasks EXCEPT ![t].pc = "get", ![t].watch = "nil"]
            /\ UNCHANGED <<reports, changed, wg>>
    /\ UNCHANGED <<zkSession, nSessions, rootExists, znodes, connEvents, wpc, watcherStop,
                   stopClosed, stopReq, connClosed, emitted, lossHandled>>
    /\ UNCHANGED <<hvars, nvars>>

----------------------------------------------------------------------------
(* The ZooKeeper ensemble, the other clients and the owner of the watcher *)

\* the connection gets a session
ZkAcquire ==
    /\ zkSession # "live" /\ ~connClosed /\ nSessions < MaxSessions
    /\ zkSession' = "live"
    /\ nSessions' = nSessions + 1
    /\ connEvents' = Append(connEvents, "HasSession")
    /\ UNCHANGED <<rootExists, znodes, reports, changed, wpc, watcherStop, stopClosed, wg,
                   tasks, stopReq, connClosed, emitted, lossHandled>>
    /\ UNCHANGED <<hvars, nvars>>

\* the session expires, which invalidates its watches, or the connection drops
ZkLose(state) ==
    /\ zkSession = "live"
    /\ zkSession' = "lost"
    /\ connEvents' = Append(connEvents, state)
    /\ tasks' = IF state = "Expired" THEN Invalidate(tasks) ELSE tasks
    /\ UNCHANGED <<nSessions, rootExists, znodes, reports, changed, wpc, watcherStop,
                   stopClosed, wg, stopReq, connClosed, emitted, lossHandled>>
    /\ UNCHANGED <<hvars, nvars>>

\* a service instance registers under the path
ChildCreate(c) ==
    /\ rootExists /\ znodes[c] = 0
    /\ znodes' = [znodes EXCEPT ![c] = 1]
    /\ tasks' = Fire(tasks, "root", {"waitRoot"}, "", "fired")
    /\ UNCHANGED <<zkSession, nSessions, rootExists, connEvents, reports, changed, wpc,
                   watcherStop, stopClosed, wg, stopReq, connClosed, emitted,
                   lossHandled>>
    /\ UNCHANGED <<hvars, nvars>>

\* a service instance rewrites its report
ChildData(c) ==
    /\ znodes[c] = 1
    /\ znodes' = [znodes EXCEPT ![c] = 2]
    /\ tasks' = Fire(tasks, "node", {"wait"}, NodePath(c), "fired")
    /\ UNCHANGED <<zkSession, nSessions, rootExists, connEvents, reports, changed, wpc,
                   watcherStop, stopClosed, wg, stopReq, connClosed, emitted,
                   lossHandled>>
    /\ UNCHANGED <<hvars, nvars>>

\* a service instance goes away
ChildDelete(c) ==
    /\ znodes[c] # 0
    /\ znodes' = [znodes EXCEPT ![c] = 0]
    /\ tasks' = Fire(Fire(tasks, "node", {"wait"}, NodePath(c), "deleted"),
                     "root", {"waitRoot"}, "", "fired")
    /\ UNCHANGED <<zkSession, nSessions, rootExists, connEvents, reports, changed, wpc,
                   watcherStop, stopClosed, wg, stopReq, connClosed, emitted,
                   lossHandled>>
    /\ UNCHANGED <<hvars, nvars>>

\* the childless path is deleted
RootDelete ==
    /\ rootExists /\ \A c \in Children : znodes[c] = 0
    /\ rootExists' = FALSE
    /\ tasks' = Fire(tasks, "root", {"waitRoot"}, "", "deleted")
    /\ UNCHANGED <<zkSession, nSessions, znodes, connEvents, reports, changed, wpc,
                   watcherStop, stopClosed, wg, stopReq, connClosed, emitted,
                   lossHandled>>
    /\ UNCHANGED <<hvars, nvars>>

\* the path is created
RootCreate ==
    /\ ~rootExists
    /\ rootExists' = TRUE
    /\ tasks' = Fire(tasks, "root", {"waitExist"}, "", "fired")
    /\ UNCHANGED <<zkSession, nSessions, znodes, connEvents, reports, changed, wpc,
                   watcherStop, stopClosed, wg, stopReq, connClosed, emitted,
                   lossHandled>>
    /\ UNCHANGED <<hvars, nvars>>

\* the owner of the watcher closes the stop channel
StopWatcher ==
    /\ ~stopReq
    /\ stopReq' = TRUE
    /\ UNCHANGED <<zkSession, nSessions, rootExists, znodes, connEvents, reports, changed,
                   wpc, watcherStop, stopClosed, wg, tasks, connClosed, emitted,
                   lossHandled>>
    /\ UNCHANGED <<hvars, nvars>>

InitZk ==
    /\ Configuration = [DoWrites |-> TRUE, DoReloads |-> TRUE, DoSocket |-> TRUE]
    /\ Backends = << >>
    /\ discovered = << << >>, << >> >>
    /\ stateFile = NoFile
    /\ pc = "start"
    /\ stop = FALSE
    /\ last = NoTick
    /\ lastDisc = NoDisc
    /\ load = NoLoad
    /\ ZInit
    /\ NInit

NextZk ==
    \/ WatchChanged
    \/ WatchHasSession
    \/ WatchSessionLoss
    \/ WatchLossDrained
    \/ WatchStop
    \/ WatchClose
    \/ \E t \in 1..MaxTasks : TaskAdd(t)
    \/ \E t \in 1..MaxTasks : TaskStopped(t)
    \/ \E t \in 1..MaxTasks : RootExists(t)
    \/ \E t \in 1..MaxTasks : RootCreated(t)
    \/ \E t \in 1..MaxTasks : RootChildren(t)
    \/ \E t \in 1..MaxTasks : RootEvent(t)
    \/ \E t \in 1..MaxTasks : NodeGet(t)
    \/ \E t \in 1..MaxTasks : NodeEvent(t)
    \/ ZkAcquire
    \/ \E state \in {"Expired", "Disconnected"} : ZkLose(state)
    \/ \E c \in OnlyChild : ChildCreate(c)
    \/ \E c \in OnlyChild : ChildData(c)
    \/ \E c \in OnlyChild : ChildDelete(c)
    \/ RootDelete
    \/ RootCreate
    \/ StopWatcher

SpecZk == InitZk /\ [][NextZk]_vars

\* The watcher under one session that is never lost, with every child coming
\* and going and no shutdown: what Watch and the goroutines do ...
Goroutines ==
    \/ WatchChanged
    \/ WatchHasSession
    \/ \E t \in 1..MaxTasks : TaskAdd(t)
    \/ \E t \in 1..MaxTasks : RootExists(t)
    \/ \E t \in 1..MaxTasks : RootChildren(t)
    \/ \E t \in 1..MaxTasks : RootEvent(t)
    \/ \E t \in 1..MaxTasks : NodeGet(t)
    \/ \E t \in 1..MaxTasks : NodeEvent(t)

\* ... and what the ensemble and the other clients do
Registrations ==
    \/ ZkAcquire
    \/ \E c \in Children : ChildCreate(c)
    \/ \E c \in Children : ChildData(c)
    \/ \E c \in Children : ChildDelete(c)

NextSiblings == Goroutines \/ Registrations

\* The watcher under sessions that are lost and acquired again, with the path
\* in place and no shutdown.
WatchStep ==
    \/ WatchChanged
    \/ WatchHasSession
    \/ WatchSessionLoss
    \/ WatchLossDrained

\* a step of the goroutine t
TaskStep(t) ==
    \/ TaskAdd(t)
    \/ TaskStopped(t)
    \/ RootExists(t)
    \/ RootChildren(t)
    \/ RootEvent(t)
    \/ NodeGet(t)
    \/ NodeEvent(t)

Sessions ==
    \/ ZkAcquire
    \/ \E state \in {"Expired", "Disconnected"} : ZkLose(state)
    \/ \E c \in OnlyChild : ChildCreate(c)
    \/ \E c \in OnlyChild : ChildData(c)
    \/ \E c \in OnlyChild : ChildDelete(c)

NextSessions ==
    \/ WatchStep
    \/ \E t \in 1..MaxTasks : TaskStep(t)
    \/ Sessions

SpecSessions == InitZk /\ [][NextSessions]_vars

\* the select of Watch takes every case that stays ready, and every goroutine
\* that can take a step eventually takes one
FairSessions ==
    /\ SpecSessions
    /\ WF_vars(WatchChanged)
    /\ WF_vars(WatchHasSession)
    /\ WF_vars(WatchSessionLoss)
    /\ WF_vars(WatchLossDrained)
    /\ \A t \in 1..MaxTasks : WF_vars(TaskStep(t))

SpecSiblings == InitZk /\ [][NextSiblings]_vars

\* The watcher under one session that is never lost, with the service path
\* and its child coming and going, and no shutdown.
Paths ==
    \/ ZkAcquire
    \/ \E c \in OnlyChild : ChildCreate(c)
    \/ \E c \in OnlyChild : ChildData(c)
    \/ \E c \in OnlyChild : ChildDelete(c)
    \/ RootDelete
    \/ RootCreate

NextPaths ==
    \/ Goroutines
    \/ \E t \in 1..MaxTasks : RootCreated(t)
    \/ Paths

SpecPaths == InitZk /\ [][NextPaths]_vars

----------------------------------------------------------------------------
(* The nerve Service (src/unnamed/part_000).  Each action is one section    *)
(* of code run by one goroutine: the handling of one case of the select of  *)
(* Start, one API call, or the steps of a Warmup goroutine between two      *)
(* blocking points.                                                         *)

\* the combined status of processStatus: none while a checker has no status,
\* ko (the first error found) if a checker has one, else ok
Combined(cs) ==
    IF \E k \in Checkers : cs[k] = "none" THEN "none"
    ELSE IF \E k \in Checkers : cs[k] = "ko" THEN "ko" ELSE "ok"

\* mutant: every status counts as a change of the combined status
Switches_Always(cur, combined) == TRUE

\* the test of processStatus: no current status, or available against
\* unavailable
Switches(cur, combined) ==
    \/ cur = "none"
    \/ cur = "ok" /\ combined # "ok"
    \/ cur = "ko" /\ combined = "ok"

\* reportAndTellIfAtLeastOneReported(required) with the one reporter, whose
\* Report succeeds or not
reportAndTellIfAtLeastOneReported(required, cur, repOk) ==
    IF cur = "none" THEN [ok |-> FALSE, io |-> << >>, reported |-> typedReportersWithReported]
    ELSE IF required \/ ~typedReportersWithReported
    THEN [ok |-> repOk, reported |-> repOk,
          io |-> << Ev("report", repOk, IF disabled THEN "disabled" ELSE cur) >>]
    ELSE [ok |-> FALSE, io |-> << >>, reported |-> typedReportersWithReported]

\* giveUpWarmup: close the channel s.warmupGiveUp holds, and forget it
giveUpWarmup ==
    IF warmupGiveUp # 0
    THEN [closed |-> closedChans \cup {warmupGiveUp},
          twice |-> closedTwice \/ warmupGiveUp \in closedChans,
          io |-> << Ev("close", TRUE, warmupGiveUp) >>]
    ELSE [closed |-> closedChans, twice |-> closedTwice, io |-> << >>]

\* the Warmup goroutines not started yet; make(chan struct{}) gives the next
CanWarmup == \E i \in 1..MaxWarmups : warmups[i] = "idle"
NewWarmup == CHOOSE i \in 1..MaxWarmups :
                 warmups[i] = "idle" /\ \A j \in 1..(i - 1) : warmups[j] # "idle"

\* warmup(): giveUpWarmup(), a new channel, go s.Warmup(s.warmupGiveUp)
warmup ==
    [closed |-> giveUpWarmup.closed, twice |-> giveUpWarmup.twice,
     giveUp |-> NewWarmup,
     warmups |-> [warmups EXCEPT ![NewWarmup] = "start"],
     io |-> giveUpWarmup.io \o << Ev("go", TRUE, NewWarmup) >>]

\* case status := <-statusChange: processStatus(status)
ProcessStatus(k, st, repOk) ==
    /\ ~stopped
    /\ LET cs == [typedCheckersWithStatus EXCEPT ![k] = st]
           combined == Combined(cs)
           r == reportAndTellIfAtLeastOneReported(TRUE, combined, repOk)
       IN  /\ typedCheckersWithStatus' = cs
           /\ IF combined # "none" /\ Switches(currentStatus, combined)
              THEN /\ currentStatus' = combined
                   /\ IF combined = "ok"
                      THEN /\ CanWarmup
                           /\ warmupGiveUp' = warmup.giveUp
                           /\ closedChans' = warmup.closed
                           /\ closedTwice' = warmup.twice
                           /\ warmups' = warmup.warmups
                           /\ nlast' = [op |-> "status", before |-> currentStatus,
                                        combined |-> combined, io |-> warmup.io]
                           /\ UNCHANGED <<currentWeightIndex, typedReportersWithReported>>
                      ELSE /\ warmupGiveUp' = 0
                           /\ closedChans' = giveUpWarmup.closed
                           /\ closedTwice' = giveUpWarmup.twice
                           /\ currentWeightIndex' = 0
                           /\ typedReportersWithReported' = r.reported
                           /\ nlast' = [op |-> "status", before |-> currentStatus,
                                        combined |-> combined,
                                        io |-> giveUpWarmup.io \o r.io]
                           /\ UNCHANGED warmups
              ELSE /\ nlast' = [op |-> "status", before |-> currentStatus,
                                combined |-> combined, io |-> << >>]
                   /\ UNCHANGED <<currentStatus, currentWeightIndex, warmupGiveUp,
                                  closedChans, closedTwice, warmups,
                                  typedReportersWithReported>>
    /\ UNCHANGED <<disabled, stopped>>
    /\ UNCHANGED <<hvars, zvars>>

\* case <-time.After(ReportReplayInMilli): reportAndTellIfAtLeastOneReported(false)
Replay(repOk) ==
    /\ ~stopped
    /\ LET r == reportAndTellIfAtLeastOneReported(FALSE, currentStatus, repOk)
       IN  /\ typedReportersWithReported' = r.reported
           /\ nlast' = [op |-> "replay", before |-> currentStatus,
                        combined |-> "none", io |-> r.io]
    /\ UNCHANGED <<typedCheckersWithStatus, currentStatus, disabled, currentWeightIndex,
                   warmupGiveUp, closedChans, closedTwice, warmups, stopped>>
    /\ UNCHANGED <<hvars, zvars>>

\* Disable up to its waiting: giveUpWarmup(), s.disabled set, a required report
DisableSteps(repOk, op, stops) ==
    /\ ~stopped
    /\ LET r == reportAndTellIfAtLeastOneReported(TRUE, currentStatus, repOk)
       IN  /\ warmupGiveUp' = 0
           /\ closedChans' = giveUpWarmup.closed
           /\ closedTwice' = giveUpWarmup.twice
           /\ disabled' = TRUE
           /\ typedReportersWithReported' =
                 IF currentStatus = "none" THEN typedReportersWithReported ELSE repOk
           /\ nlast' = [op |-> op, before |-> currentStatus, combined |-> "none",
                        io |-> giveUpWarmup.io
                               \o (IF currentStatus = "none" THEN << >>
                                   ELSE << Ev("report", repOk, "disabled") >>)]
    /\ stopped' = stops
    /\ UNCHANGED <<typedCheckersWithStatus, currentStatus, currentWeightIndex, warmups>>
    /\ UNCHANGED <<hvars, zvars>>

\* the API call Disable
Disable(repOk) == DisableSteps(repOk, "disable", FALSE)

\* case <-stopper of Start, with SetServiceAsDownOnShutdown: Disable, and return
ServiceStop(repOk) == DisableSteps(repOk, "stop", TRUE)

\* the API call Enable: s.disabled = nil, and warmup() when no channel is held
Enable ==
    /\ ~stopped
    /\ disabled' = FALSE
    /\ IF warmupGiveUp = 0
       THEN /\ CanWarmup
            /\ warmupGiveUp' = warmup.giveUp
            /\ closedChans' = warmup.closed
            /\ closedTwice' = warmup.twice
            /\ warmups' = warmup.warmups
            /\ nlast' = [op |-> "enable", before |-> currentStatus, combined |-> "none",
                         io |-> warmup.io]
       ELSE /\ nlast' = [op |-> "enable", before |-> currentStatus, combined |-> "none",
                         io |-> << >>]
            /\ UNCHANGED <<warmupGiveUp, closedChans, closedTwice, warmups>>
    /\ UNCHANGED <<typedCheckersWithStatus, currentStatus, currentWeightIndex,
                   typedReportersWithReported, stopped>>
    /\ UNCHANGED <<hvars, zvars>>

\* Warmup, before its loop: the weight index back to 0 and a required report
WarmupStart(i, repOk) ==
    /\ warmups[i] = "start"
    /\ LET r == reportAndTellIfAtLeastOneReported(TRUE, currentStatus, repOk)
       IN  /\ currentWeightIndex' = 0
           /\ typedReportersWithReported' = r.reported
           /\ nlast' = [op |-> "warmup", before |-> currentStatus, combined |-> "none",
                        io |-> r.io]
    /\ warmups' = [warmups EXCEPT ![i] = "loop"]
    /\ UNCHANGED <<typedCheckersWithStatus, currentStatus, disabled, warmupGiveUp,
                   closedChans, closedTwice, stopped>>
    /\ UNCHANGED <<hvars, zvars>>

\* one pass of the loop of Warmup up to its select, its return on the max
\* duration, or its wait for s.warmupMutex when the service is fully stable.
\* cmdOk: the check-stable command succeeds, or there is none.
WarmupLoop(i, cmdOk, repOk, timeout) ==
    /\ warmups[i] = "loop"
    /\ LET stepped == IF cmdOk THEN currentWeightIndex + 1 ELSE 0
           r == IF stepped < LenWeights
                THEN reportAndTellIfAtLeastOneReported(TRUE, currentStatus, repOk)
                ELSE [ok |-> TRUE, io |-> << >>, reported |-> typedReportersWithReported]
           index == IF stepped < LenWeights /\ ~r.ok THEN 0 ELSE stepped
           full == reportAndTellIfAtLeastOneReported(TRUE, currentStatus, repOk)
       IN  IF index > PostFullWeightMax + LenWeights
           THEN /\ warmups' = [warmups EXCEPT ![i] = "stable"]
                /\ currentWeightIndex' = index
                /\ typedReportersWithReported' = r.reported
                /\ nlast' = [op |-> "warmup", before |-> currentStatus,
                             combined |-> "none", io |-> r.io]
           ELSE IF timeout
           THEN /\ warmups' = [warmups EXCEPT ![i] = "done"]
                /\ currentWeightIndex' = LenWeights - 1
                /\ typedReportersWithReported' = full.reported
                /\ nlast' = [op |-> "warmup", before |-> currentStatus,
                             combined |-> "none", io |-> r.io \o full.io]
           ELSE /\ warmups' = [warmups EXCEPT ![i] = "select"]
                /\ currentWeightIndex' = index
                /\ typedReportersWithReported' = r.reported
                /\ nlast' = [op |-> "warmup", before |-> currentStatus,
                             combined |-> "none", io |-> r.io]
    /\ UNCHANGED <<typedCheckersWithStatus, currentStatus, disabled, warmupGiveUp,
                   closedChans, closedTwice, stopped>>
    /\ UNCHANGED <<hvars, zvars>>

\* "Service is fully stable": s.warmupMutex taken, s.warmupGiveUp = nil, return
WarmupStable(i) ==
    /\ warmups[i] = "stable"
    /\ warmupGiveUp' = 0
    /\ warmups' = [warmups EXCEPT ![i] = "done"]
    /\ nlast' = [op |-> "warmup", before |-> currentStatus, combined |-> "none",
                 io |-> << >>]
    /\ UNCHANGED <<typedCheckersWithStatus, currentStatus, disabled, currentWeightIndex,
                   closedChans, closedTwice, typedReportersWithReported, stopped>>
    /\ UNCHANGED <<hvars, zvars>>

\* case <-giveUp: return
WarmupGivenUp(i) ==
    /\ warmups[i] = "select" /\ i \in closedChans
    /\ warmups' = [warmups EXCEPT ![i] = "done"]
    /\ nlast' = [op |-> "warmup", before |-> currentStatus, combined |-> "none",
                 io |-> << >>]
    /\ UNCHANGED <<typedCheckersWithStatus, currentStatus, disabled, currentWeightIndex,
                   warmupGiveUp, closedChans, closedTwice, typedReportersWithReported,
                   stopped>>
    /\ UNCHANGED <<hvars, zvars>>

\* case <-time.After(EnableWarmupIntervalInMilli): the interval has passed
\* and the channel has not been closed meanwhile; the next pass
WarmupTimer(i) ==
    /\ warmups[i] = "select" /\ i \notin closedChans
    /\ warmups' = [warmups EXCEPT ![i] = "loop"]
    /\ nlast' = [op |-> "warmup", before |-> currentStatus, combined |-> "none",
                 io |-> << >>]
    /\ UNCHANGED <<typedCheckersWithStatus, currentStatus, disabled, currentWeightIndex,
                   warmupGiveUp, closedChans, closedTwice, typedReportersWithReported,
                   stopped>>
    /\ UNCHANGED <<hvars, zvars>>

NextNerve ==
    \/ \E k \in Checkers, st \in {"ok", "ko"}, repOk \in BOOLEAN : ProcessStatus(k, st, repOk)
    \/ \E repOk \in BOOLEAN : Replay(repOk)
    \/ \E repOk \in BOOLEAN : Disable(repOk)
    \/ \E repOk \in BOOLEAN : ServiceStop(repOk)
    \/ Enable
    \/ \E i \in 1..MaxWarmups, repOk \in BOOLEAN : WarmupStart(i, repOk)
    \/ \E i \in 1..MaxWarmups, cmdOk, repOk, timeout \in BOOLEAN :
          WarmupLoop(i, cmdOk, repOk, timeout)
    \/ \E i \in 1..MaxWarmups : WarmupStable(i)
    \/ \E i \in 1..MaxWarmups : WarmupGivenUp(i)
    \/ \E i \in 1..MaxWarmups : WarmupTimer(i)

SpecNerve == InitZk /\ [][NextNerve]_vars

\* The service run by Start alone, without calls of Enable and Disable
NextStart ==
    \/ \E k \in Checkers, st \in {"ok", "ko"}, repOk \in BOOLEAN : ProcessStatus(k, st, repOk)
    \/ \E repOk \in BOOLEAN : Replay(repOk)
    \/ \E repOk \in BOOLEAN : ServiceStop(repOk)
    \/ \E i \in 1..MaxWarmups, repOk \in BOOLEAN : WarmupStart(i, repOk)
    \/ \E i \in 1..MaxWarmups, cmdOk, repOk, timeout \in BOOLEAN :
          WarmupLoop(i, cmdOk, repOk, timeout)
    \/ \E i \in 1..MaxWarmups : WarmupStable(i)
    \/ \E i \in 1..MaxWarmups : WarmupGivenUp(i)
    \/ \E i \in 1..MaxWarmups : WarmupTimer(i)

SpecStart == InitZk /\ [][NextStart]_vars

----------------------------------------------------------------------------
(* Properties of the reconciliation loop.  In a state with pc = "select" an  *)
(* iteration has just run and last describes it.                             *)

Ticked == pc = "select"

HasOp(op) == \E i \in DOMAIN last.io : last.io[i].op = op
FailedOp(op) == \E i \in DOMAIN last.io : last.io[i].op = op /\ ~last.io[i].ok

NoChange == ~last.err /\ ~last.isModified
EnableDisableOnly == ~last.err /\ last.isModified /\ ~last.hasToRestart
Structural == ~last.err /\ last.isModified /\ last.hasToRestart

ConfigWritten == ~FailedOp("writeConfig")

\* the socket answered some command with something else than "\n"
BadResponse ==
    \E i \in DOMAIN last.io :
        last.io[i].op = "sockRead" /\ last.io[i].ok /\ last.io[i].data # <<"\n">>

\* the socket answered every command of the tick with "\n"
AllAnswered ==
    Cardinality({ i \in DOMAIN last.io :
                    last.io[i].op = "sockRead" /\ last.io[i].ok
                    /\ last.io[i].data = <<"\n">> }) = Len(last.socketCommands)

\* C1: in an EnableDisableOnly tick with do_socket and do_reloads and the config
\* written, a socket response other than "\n" makes the tick invoke the reload
C1_SocketFallback ==
    (Ticked /\ EnableDisableOnly /\ Configuration.DoSocket /\ Configuration.DoReloads
        /\ HasOp("writeConfig") /\ ConfigWritten /\ BadResponse)
    => HasOp("reload")

\* C2: when the config write or the reload fails in a tick, the applied snapshot
\* after the tick is the one before it
C2_FailureKeepsApplied ==
    (Ticked /\ (FailedOp("writeConfig") \/ FailedOp("reload")))
    => Backends = last.before

\* C4: a tick that reads the same reports as the tick before it is NoChange and
\* performs no I/O
C4_Idempotence ==
    (Ticked /\ last.sameDisc) => (NoChange /\ last.io = << >>)

C4_Witness ==
    Ticked /\ last.sameDisc /\ Backends # << >> /\ ~last.first
    /\ \E i \in DOMAIN Backends : \E j \in DOMAIN Backends[i].Servers :
          Backends[i].Servers[j].Disabled

\* b differs from a in nothing but Disabled flags of servers, and in at least one
OnlyFlagsDiffer(a, b) ==
    /\ Len(a) = Len(b)
    /\ \A i \in DOMAIN a :
          /\ [a[i] EXCEPT !.Servers = << >>] = [b[i] EXCEPT !.Servers = << >>]
          /\ Len(a[i].Servers) = Len(b[i].Servers)
          /\ \A j \in DOMAIN a[i].Servers :
                [a[i].Servers[j] EXCEPT !.Disabled = FALSE]
                    = [b[i].Servers[j] EXCEPT !.Disabled = FALSE]
    /\ \E i \in DOMAIN a : \E j \in DOMAIN a[i].Servers :
          a[i].Servers[j].Disabled # b[i].Servers[j].Disabled

\* C5: a candidate that differs from the applied snapshot in disabled flags only
\* is EnableDisableOnly, and with do_socket and every command answered "\n" the
\* tick executes no reload
C5_ReloadMinimization ==
    (Ticked /\ OnlyFlagsDiffer(last.before, last.candidate))
    => /\ EnableDisableOnly
       /\ (Configuration.DoSocket /\ AllAnswered) => ~HasOp("reload")

C5_Witness ==
    /\ Ticked /\ OnlyFlagsDiffer(last.before, last.candidate)
    /\ Configuration.DoSocket /\ Configuration.DoReloads /\ AllAnswered
    /\ Len(last.socketCommands) >= 2 /\ HasOp("sockClose")

\* C6: with do_writes false no tick writes the config file, with do_reloads false
\* no tick runs the reload command, and a closed write gate is no error: the
\* tick goes on to its reload
C6_WriteReloadGates ==
    /\ ~Configuration.DoWrites => ~HasOp("writeConfig")
    /\ ~Configuration.DoReloads => ~HasOp("reload")
    /\ (Ticked /\ Structural /\ ~Configuration.DoWrites /\ Configuration.DoReloads)
          => HasOp("reload")
    /\ (Ticked /\ EnableDisableOnly /\ ~Configuration.DoWrites
          /\ Configuration.DoSocket) => HasOp("dial")

C6_Witness ==
    /\ Ticked /\ last.isModified /\ ~Configuration.DoWrites /\ ~Configuration.DoReloads
    /\ Configuration.DoSocket /\ HasOp("dial") /\ FailedOp("dial")

\* C7: with do_socket false and do_reloads true every modified tick whose config
\* write succeeds runs the reload command, and no tick opens the admin socket
C7_SocketGate ==
    /\ (Ticked /\ ~Configuration.DoSocket /\ Configuration.DoReloads
          /\ last.isModified /\ ConfigWritten) => HasOp("reload")
    /\ ~Configuration.DoSocket => ~HasOp("dial")

C7_Witness ==
    /\ Ticked /\ ~Configuration.DoSocket /\ Configuration.DoReloads
    /\ EnableDisableOnly /\ HasOp("writeConfig") /\ ConfigWritten /\ HasOp("reload")

\* LoadState has just run
Loaded == pc = "loop" /\ ~lastDisc.valid

\* C8: LoadState adopts the state file only if it is at most TTL ms old, and
\* leaves the applied snapshot empty if it is older; when it has adopted a
\* snapshot and the first tick reads the discovery the snapshot was saved from,
\* that tick performs no I/O
C8_StateFreshness ==
    /\ Loaded =>
          /\ load.age > TTL => Backends = << >>
          /\ Backends # << >> => (load.existed /\ load.age <= TTL)
          /\ (load.existed /\ load.age <= TTL /\ load.readOk)
                => (Backends = Unmarshal(stateFile.data) /\ Backends # << >>)
    /\ (Ticked /\ last.first /\ load.adopted /\ lastDisc.disc = load.from)
          => (NoChange /\ last.io = << >>)

C8_Witness ==
    /\ Ticked /\ last.first /\ load.adopted /\ lastDisc.disc = load.from
    /\ load.age = TTL /\ Len(last.before) = Len(Services)
    /\ \E j \in DOMAIN last.before[1].Servers :
          last.before[1].Servers[j].HAProxyServerOptions # ""

\* s and t hold the same reports, in any order
SameReports(s, t) ==
    /\ Len(s) = Len(t)
    /\ \E f \in [DOMAIN s -> DOMAIN s] :
          /\ \A i, j \in DOMAIN s : i # j => f[i] # f[j]
          /\ \A i \in DOMAIN s : t[f[i]] = s[i]

\* C9: two discoveries that hold the same reports per service, in whatever
\* order, give the same config-file data
C9_Determinism ==
    Ticked =>
        \A d \in Discoveries :
            (\A i \in DOMAIN d : SameReports(d[i], lastDisc.disc[i]))
            => ConfigData(getAllBackends(d)) = ConfigData(last.candidate)

ServersSorted(servers) ==
    \A i, j \in DOMAIN servers : i < j => ~ServerLess(servers[j], servers[i])

SnapshotSorted(backends) ==
    /\ \A i, j \in DOMAIN backends : i < j => ~BackendLess(backends[j], backends[i])
    /\ \A i \in DOMAIN backends : ServersSorted(backends[i].Servers)

\* the servers of the backend of service k: all its defaults and all its
\* discovered reports, in one list
Merged(backend, k, disc) ==
    /\ backend.Name = Services[k].Name
    /\ Len(backend.Servers) = Len(Services[k].DefaultServers) + Len(disc[k])
    /\ \A j \in DOMAIN Services[k].DefaultServers :
          \E n \in DOMAIN backend.Servers :
             backend.Servers[n] = DefaultServer(Services[k].DefaultServers[j])
    /\ \A j \in DOMAIN disc[k] :
          \E n \in DOMAIN backend.Servers :
             backend.Servers[n] = DiscoveredServer(disc[k][j])

\* C10: every candidate and every applied snapshot has its backends in name
\* order and each backend's servers in (name, host, port) order, defaults and
\* discovered servers in one list
C10_Ordering ==
    /\ SnapshotSorted(Backends)
    /\ Ticked =>
          /\ SnapshotSorted(last.candidate)
          /\ \A k \in DOMAIN Services :
                \E i \in DOMAIN last.candidate : Merged(last.candidate[i], k, lastDisc.disc)

C10_Witness ==
    /\ Ticked /\ Backends = last.candidate /\ last.isModified
    /\ Len(lastDisc.disc[1]) = MaxReports
    /\ Backends[1].Name = "api"
    /\ Backends[2].Servers[Len(Backends[2].Servers)].Name = "b"

\* a and b have as many backends, and each backend the same servers by
\* (name, host, port) at the same positions
SameLists(a, b) ==
    /\ Len(a) = Len(b)
    /\ \A i \in DOMAIN a :
          /\ Len(a[i].Servers) = Len(b[i].Servers)
          /\ \A j \in DOMAIN a[i].Servers :
                SameServer(a[i].Servers[j], b[i].Servers[j])

\* the positions <<backend, server>> at which the disabled flags of a and b differ
Differing(a, b) ==
    { p \in UNION { { <<i, j>> : j \in DOMAIN b[i].Servers } : i \in DOMAIN b } :
        a[p[1]].Servers[p[2]].Disabled # b[p[1]].Servers[p[2]].Disabled }

\* snapshot order: backend order, then server order
PositionLess(p, q) == p[1] < q[1] \/ (p[1] = q[1] /\ p[2] < q[2])

\* the directive for the server at position p of the candidate b
Directive(b, p) ==
    << IF b[p[1]].Servers[p[2]].Disabled THEN "disable server " ELSE "enable server ",
       b[p[1]].Name, "/", b[p[1]].Servers[p[2]].Name >>

\* C11: when the applied snapshot and the candidate hold the same servers by
\* (name, host, port), the command list of the Differ has one command per
\* server whose disabled flag differs and no other, in snapshot order, each
\* "disable server <backend>/<server>" if the candidate server is disabled and
\* "enable server <backend>/<server>" otherwise
C11_CommandList ==
    (Ticked /\ SameLists(last.before, last.candidate)) =>
        LET D == Differing(last.before, last.candidate)
        IN  /\ Len(last.socketCommands) = Cardinality(D)
            /\ \A p \in D :
                  last.socketCommands[1 + Cardinality({ q \in D : PositionLess(q, p) })]
                      = Directive(last.candidate, p)

C11_Witness ==
    /\ Ticked /\ SameLists(last.before, last.candidate)
    /\ Len(last.socketCommands) = 3
    /\ last.socketCommands[1][1] = "enable server " /\ last.socketCommands[1][2] = "api"
    /\ last.socketCommands[2][1] = "disable server " /\ last.socketCommands[2][2] = "web"
    /\ last.socketCommands[3][1] = "enable server "
    /\ Len(last.candidate[2].Servers) = 3

\* a and b differ in the backend count, in the server count of a backend, or in
\* the name, host or port of a server at some position
StructurallyDifferent(a, b) ==
    \/ Len(a) # Len(b)
    \/ \E i \in DOMAIN b :
          \/ Len(a[i].Servers) # Len(b[i].Servers)
          \/ \E j \in DOMAIN b[i].Servers :
                \/ a[i].Servers[j].Name # b[i].Servers[j].Name
                \/ a[i].Servers[j].Host # b[i].Servers[j].Host
                \/ a[i].Servers[j].Port # b[i].Servers[j].Port

\* C12: a tick whose candidate differs from the applied snapshot in the backend
\* count, in a backend's server count, or in the name, host or port of a server
\* at some position is Structural, whatever disabled flags differ elsewhere; so
\* is every tick with an empty applied snapshot and a non-empty candidate
C12_StructuralClass ==
    /\ (Ticked /\ ~last.err /\ StructurallyDifferent(last.before, last.candidate))
          => Structural
    /\ (Ticked /\ ~last.err /\ last.before = << >> /\ last.candidate # << >>)
          => Structural

\* a server changed its name while its backend kept its server count, and a
\* disabled flag differs in the other backend
C12_Witness ==
    /\ Ticked /\ Structural /\ Len(last.before) = Len(last.candidate)
    /\ \A i \in DOMAIN last.candidate :
          Len(last.before[i].Servers) = Len(last.candidate[i].Servers)
    /\ last.before[1].Servers[1].Name # last.candidate[1].Servers[1].Name
    /\ last.socketCommands # << >>

\* C13: in a tick the state file is written only after the config write and
\* the reload or socket commands of the tick, and a tick whose config write or
\* reload fails writes no state file
C13_StateFollowsSuccess ==
    Ticked =>
        /\ (FailedOp("writeConfig") \/ FailedOp("reload")) => ~HasOp("saveState")
        /\ \A i, j \in DOMAIN last.io :
              (last.io[i].op = "saveState" /\ last.io[j].op # "saveState") => j < i

\* C15: a tick that ran although the shutdown signal was sent during the
\* sleep before it performs no I/O: no config write, no state write, no reload
\* and no socket command
C15_StopInterruptsSleep ==
    (Ticked /\ stop /\ ~last.first) => last.io = << >>

\* C16: a tick whose candidate has another backend count than there are
\* services gets an error from the Differ and is skipped: it performs no I/O
\* and leaves the applied snapshot as it was, and the loop goes on
C16_ViolationSkipsTick ==
    (Ticked /\ Len(last.candidate) # Len(Services)) =>
        /\ last.err
        /\ last.io = << >>
        /\ Backends = last.before
        /\ ~stop => ENABLED SelectDefault

\* a tick with one backend for two services, after a tick that applied two
C16_Witness ==
    /\ Ticked /\ Len(last.candidate) = 1 /\ Len(Services) = 2
    /\ last.err /\ Len(Backends) = 2 /\ ~last.first

SocketOps == {"dial", "sockWrite", "sockRead", "sockClose"}

\* the commands written to the socket in the tick, in the order written
Written == SelectSeq(last.io, LAMBDA e : e.op = "sockWrite")

\* C18: in a tick with do_writes, the config file is written, with success,
\* before any reload or socket operation; a failed config write is followed by
\* no reload and no socket operation; the commands written to the socket are
\* the first commands of the Differ's list in its order, each successful write
\* followed at once by one read and each read preceded by a write; and a reload
\* in a tick that opened the socket comes after every socket operation
C18_EffectorOrder ==
    Ticked =>
        /\ \A i \in DOMAIN last.io :
              (Configuration.DoWrites /\ last.io[i].op \in SocketOps \cup {"reload"})
              => \E j \in 1..(i - 1) : last.io[j].op = "writeConfig" /\ last.io[j].ok
        /\ FailedOp("writeConfig")
              => \A i \in DOMAIN last.io : last.io[i].op \notin SocketOps \cup {"reload"}
        /\ Len(Written) <= Len(last.socketCommands)
        /\ \A k \in DOMAIN Written : Written[k].data = last.socketCommands[k]
        /\ \A i \in DOMAIN last.io :
              /\ (last.io[i].op = "sockWrite" /\ last.io[i].ok)
                    => (i + 1 \in DOMAIN last.io /\ last.io[i + 1].op = "sockRead")
              /\ last.io[i].op = "sockRead"
                    => (i > 1 /\ last.io[i - 1].op = "sockWrite" /\ last.io[i - 1].ok)
        /\ \A i, j \in DOMAIN last.io :
              (last.io[i].op = "reload" /\ last.io[j].op \in SocketOps) => j < i

\* the second of two commands gets no response and the tick falls back to a reload
C18_Witness ==
    /\ Ticked /\ EnableDisableOnly /\ HasOp("writeConfig") /\ ConfigWritten
    /\ Len(Written) = 2 /\ Len(last.socketCommands) >= 2
    /\ FailedOp("sockRead") /\ HasOp("reload")

----------------------------------------------------------------------------
(* Properties of the ZooKeeper watcher *)

\* C3: once Watch has handled a session-expired or disconnected event, with
\* every watch goroutine cancelled and drained, and until it starts a new root
\* watch, the report map is empty and every report sent to the consumer is
\* empty.
C3_SessionLossClears ==
    (lossHandled /\ tasks = << >>) =>
        /\ reports = NoReports
        /\ emitted.reports = NoReports

\* C14: when the shared connection has been closed, every watchRoot and
\* watchNode goroutine that Watch started has returned
C14_CloseAfterDrain == connClosed => tasks = << >>

\* Watch has nothing to receive and every goroutine waits on an armed watch:
\* nothing happens until a znode changes
Quiescent ==
    /\ wpc = "select" /\ ~changed /\ connEvents = << >> /\ ~stopReq
    /\ \A t \in DOMAIN tasks :
          tasks[t].pc \in {"waitExist", "waitRoot", "wait"} /\ tasks[t].watch = "armed"

\* C19: while the session is live, once a child znode has been deleted and
\* Watch and the goroutines have done all they can do, the report map holds no
\* report of that child
C19_DeletedChildRemoved ==
    \A c \in Children :
        (zkSession = "live" /\ znodes[c] = 0 /\ Quiescent)
            => reports[NodePath(c)] = 0

\* the child c has a watchNode goroutine of the current watcherStop channel
\* that waits on its watch, and its report is the content of its znode
Watched(c) ==
    /\ reports[NodePath(c)] = znodes[c]
    /\ \E t \in DOMAIN tasks :
          /\ tasks[t].kind = "node" /\ tasks[t].node = NodePath(c)
          /\ tasks[t].pc = "wait" /\ ~StopClosedFor(t)

\* a session has been acquired after a loss
Reacquired == zkSession = "live" /\ nSessions >= 2

\* C20: after a session loss and a new session, every child znode that exists
\* eventually has a live watchNode goroutine and its report in the report map,
\* unless the session is lost again or the child goes away
C20_ReacquireRewatches ==
    \A c \in Children :
        (Reacquired /\ znodes[c] # 0)
            ~> (Watched(c) \/ zkSession # "live" \/ znodes[c] = 0)

\* nothing is registered under the service path
Absent == ~rootExists \/ \A c \in Children : znodes[c] = 0

\* the watchRoot goroutine t has found no path or no child and waits on the
\* watch it was given, which has not fired: nothing has changed since
SawNothing(t) ==
    /\ tasks[t].kind = "root" /\ tasks[t].pc \in {"waitExist", "waitRoot"}
    /\ tasks[t].watch = "armed" /\ Absent

\* watchRoot finds no path (or gets an error from ExistsW), finds no child (or
\* gets an error from ChildrenW), or receives the deletion of the path
RootSeesNothing(t) ==
    \/ RootExists(t) /\ ~(Connected /\ rootExists)
    \/ RootChildren(t) /\ Childs = {}
    \/ RootEvent(t) /\ tasks[t].watch = "deleted"

----------------------------------------------------------------------------
(* The Assembler's snapshots *)

\* no two servers of the backend have the same host and port
UniqueServers(backend) ==
    \A i, j \in DOMAIN backend.Servers :
        (i # j) => ~(/\ backend.Servers[i].Host = backend.Servers[j].Host
                     /\ backend.Servers[i].Port = backend.Servers[j].Port)

\* C22: in the candidate snapshot of every tick, no backend has two servers
\* with the same host and port
C22_ServerUniqueness ==
    Ticked => \A b \in DOMAIN last.candidate : UniqueServers(last.candidate[b])

----------------------------------------------------------------------------
(* The bytes on the admin socket *)

\* the pieces of one command line: directive, backend, "/", server, newline
WireLine(data) ==
    /\ Len(data) = 5
    /\ data[1] \in {"enable server ", "disable server "}
    /\ data[3] = "/"
    /\ data[5] = "\n"

\* the positions of the tick's events with this operation
OpsAt(op) == { i \in DOMAIN last.io : last.io[i].op = op }

\* C23: every command written to the socket is one line "enable server
\* <backend>/<server>\n" or "disable server <backend>/<server>\n"; a tick opens
\* at most one connection, and an opened connection is closed once, after
\* every write and read
C23_WireFormat ==
    Ticked =>
        /\ \A k \in DOMAIN Written : WireLine(Written[k].data)
        /\ Cardinality(OpsAt("dial")) <= 1
        /\ \A i \in OpsAt("dial") :
              last.io[i].ok =>
                  /\ Cardinality(OpsAt("sockClose")) = 1
                  /\ \A c \in OpsAt("sockClose") :
                        \A j \in OpsAt("sockWrite") \cup OpsAt("sockRead") : i < j /\ j < c

----------------------------------------------------------------------------
(* The config file *)

\* the tick handed the serialization of its candidate to ioutil.WriteFile,
\* which wrote it
WroteCandidate ==
    \E i \in DOMAIN last.io :
        /\ last.io[i].op = "writeConfig" /\ last.io[i].ok
        /\ last.io[i].data = ConfigData(last.candidate)

\* C24: with do_writes, a tick in which the Differ returns no error and no
\* operation of the Effector fails has written the serialization of its
\* candidate to the config file, unless it found no change, and then the
\* candidate's serialization is that of the applied snapshot
C24_ConfigTracksCandidate ==
    (Ticked /\ Configuration.DoWrites /\ ~last.err
            /\ \A i \in DOMAIN last.io : last.io[i].ok) =>
        IF last.isModified
        THEN WroteCandidate
        ELSE ConfigData(last.candidate) = ConfigData(last.before)

----------------------------------------------------------------------------
(* The goroutines per znode *)

\* the watchRoot goroutines, and the watchNode goroutines of the child c, that
\* have been started and have not returned
LiveRoots == { t \in DOMAIN tasks : tasks[t].kind = "root" }
LiveNodes(c) == { t \in DOMAIN tasks : tasks[t].kind = "node" /\ tasks[t].node = NodePath(c) }

\* C25: at any time there is at most one watchRoot goroutine, and at most one
\* watchNode goroutine for each child znode
C25_SingleWatcher ==
    /\ Cardinality(LiveRoots) <= 1
    /\ \A c \in Children : Cardinality(LiveNodes(c)) <= 1

----------------------------------------------------------------------------
(* The nerve Service *)

\* the Warmup goroutines that run and have not been told to give up
ActiveWarmups ==
    { i \in 1..MaxWarmups : warmups[i] \notin {"idle", "done"} /\ i \notin closedChans }

\* C26: at most one Warmup goroutine runs without having been told to give
\* up, and no give-up channel is closed twice
C26_SingleWarmup ==
    /\ Cardinality(ActiveWarmups) <= 1
    /\ ~closedTwice

\* the latest step of the service called Report, started a Warmup, closed a
\* give-up channel
DidOp(op) == \E i \in DOMAIN nlast.io : nlast.io[i].op = op

\* every checker has delivered a status; all the latest statuses are OK
AllDelivered == \A k \in Checkers : typedCheckersWithStatus[k] # "none"
AllOk == \A k \in Checkers : typedCheckersWithStatus[k] = "ok"

\* C27: no report is sent while a checker has delivered no status; once all
\* have, the current status is available iff all the latest statuses are OK;
\* and processStatus reports, starts a warmup or gives one up only when the
\* combined status differs from the one before: on a switch to available it
\* starts a Warmup (which reports), on a switch to unavailable it gives the
\* warmup up, puts the weight index to 0 and reports
C27_CombinedStatus ==
    /\ DidOp("report") => AllDelivered
    /\ currentStatus = "none" <=> ~AllDelivered
    /\ AllDelivered => (currentStatus = "ok" <=> AllOk)
    /\ nlast.op = "status" =>
          IF AllDelivered /\ nlast.before # (IF AllOk THEN "ok" ELSE "ko")
          THEN IF AllOk
               THEN DidOp("go")
               ELSE /\ DidOp("report") /\ ~DidOp("go")
                    /\ currentWeightIndex = 0 /\ warmupGiveUp = 0
          ELSE nlast.io = << >>

\* processStatus finds the service unavailable after it was available: the
\* running warmup is given up and the failure is reported
C27_Witness ==
    /\ nlast.op = "status" /\ nlast.before = "ok" /\ currentStatus = "ko"
    /\ DidOp("close") /\ DidOp("report")

====
